---- MODULE Spec2Model ----
(***************************************************************************)
(* Realtime-endpoint probe of acs-voice-bot: candidate generation          *)
(* (buildCandidates), the single WebSocket attempt (tryWebSocketOnce of    *)
(* index.js, tryOnce of the earlier variant), the one-hop redirect         *)
(* follow-up (tryWithRedirect), the sequential /test-realtime run, the     *)
(* one-shot /ws-once probe of index.js and the /acs/inbound webhook.       *)
(*                                                                         *)
(* Strings are sequences of symbols.  The characters the code's regular    *)
(* expressions look at ("h","t","p","s","w",":","/"," ") are symbols of    *)
(* their own; a longer symbol ("/openai/", "2025-08-28") abbreviates a     *)
(* literal run of characters that no regular expression of the code ever   *)
(* inspects in the place where it stands.                                  *)
(***************************************************************************)
EXTENDS Naturals, Sequences, FiniteSets

VARIABLES
    variant,      \* which source file's /test-realtime handler runs
    env,          \* process.env as read at module load
    pc,           \* position of the /test-realtime handler
    candidates,   \* the handler's candidate URL list
    idx,          \* 1-based index of the candidate of the current loop round; 0 where no
                  \* loop runs: before the handler, and throughout /ws-once
    hop,          \* position inside tryWithRedirect: 0 = awaiting first, 1 = awaiting second
    first,        \* tryWithRedirect's local `first`
    trace,        \* the handler's local `trace` (`results` in the variant)
    attempts,     \* one record per `new WebSocket(...)` that succeeded, in creation order
    response,     \* what was sent on `res`
    dev,          \* events so far that were not what the remote usually does
    usual,        \* what the remote normally does with a handshake: "404" or "silence"
    gen,          \* the pure helpers (candidate generator, scheme rewriting) applied to drawn inputs
    hook,         \* one request of the /acs/inbound webhook
    other,        \* a second invocation of /test-realtime, parked while the first one's
                  \* callbacks run
    once          \* one request of a handler that holds a single socket and answers from
                  \* its callbacks (/ws-once of part_003, the smoke tests)

vars == <<variant, env, pc, candidates, idx, hop, first, trace, attempts, response, dev, usual, gen,
          hook, other, once>>

(***************************************************************************)
(* Bounds of the model.                                                    *)
(***************************************************************************)
\* events per run that depart from what the remote usually does: a first attempt
\* settled otherwise than by an open or by the usual answer, or an event that
\* reaches an attempt already settled
MaxDev == 1
\* longest versions / paths / paramNames list drawn for the generator
MaxListLen == 2

(***************************************************************************)
(* Strings                                                                 *)
(***************************************************************************)
Empty == <<>>

\* /i flag of the two scheme regular expressions: compare case-insensitively
Lower(c) ==
    CASE c = "H" -> "h"
      [] c = "T" -> "t"
      [] c = "P" -> "p"
      [] c = "S" -> "s"
      [] OTHER -> c

StartsWithCI(u, pre) ==
    /\ Len(u) >= Len(pre)
    /\ \A i \in 1..Len(pre) : Lower(u[i]) = pre[i]

\* String.prototype.replace with a ^-anchored, case-insensitive literal pattern
ReplacePrefixCI(u, pre, rep) ==
    IF StartsWithCI(u, pre) THEN rep \o SubSeq(u, Len(pre) + 1, Len(u)) ELSE u

\* a rewriting that maps both schemes to the secure one
httpToWssAlwaysSecure(u) ==
    ReplacePrefixCI(
        ReplacePrefixCI(u, <<"h", "t", "t", "p", ":">>, <<"w", "s", "s", ":">>),
        <<"h", "t", "t", "p", "s", ":">>, <<"w", "s", "s", ":">>)

\* index.js: (u || "").replace(/^http:/i, "ws:").replace(/^https:/i, "wss:")
httpToWss(u) ==
    ReplacePrefixCI(
        ReplacePrefixCI(u, <<"h", "t", "t", "p", ":">>, <<"w", "s", ":">>),
        <<"h", "t", "t", "p", "s", ":">>, <<"w", "s", "s", ":">>)

\* (u || "").replace(/\/+$/, "")
RECURSIVE stripTrailingSlashes(_)
stripTrailingSlashes(u) ==
    IF Len(u) > 0 /\ u[Len(u)] = "/"
    THEN stripTrailingSlashes(SubSeq(u, 1, Len(u) - 1))
    ELSE u

\* part_003: (endpoint || "").replace(/^http/i, "ws").replace(/\/+$/, "")
wsBaseFromHttp(endpoint) ==
    stripTrailingSlashes(ReplacePrefixCI(endpoint, <<"h", "t", "t", "p">>, <<"w", "s">>))

\* encodeURIComponent on one symbol: reserved characters are percent-encoded,
\* unreserved ones (and runs of them) are kept
EncodeSymbol(c) ==
    CASE c = " " -> "%20"
      [] c = "/" -> "%2F"
      [] c = ":" -> "%3A"
      [] OTHER -> c

encodeURIComponent(s) == [i \in 1..Len(s) |-> EncodeSymbol(s[i])]

(***************************************************************************)
(* Candidate generation                                                    *)
(***************************************************************************)
\* the template literal of index.js lines 100-102
CandidateUrl(base, v, p, pn, deployment) ==
    base \o <<"/openai/">> \o p \o <<"?api-version=">> \o encodeURIComponent(v)
         \o <<"&">> \o pn \o <<"=">> \o encodeURIComponent(deployment)

\* for (const pn of paramNames) out.push(...)
RECURSIVE ForParamNames(_, _, _, _, _, _)
ForParamNames(out, base, v, p, pns, deployment) ==
    IF pns = <<>> THEN out
    ELSE ForParamNames(Append(out, CandidateUrl(base, v, p, Head(pns), deployment)),
                       base, v, p, Tail(pns), deployment)

\* for (const p of paths) ...
RECURSIVE ForPaths(_, _, _, _, _, _)
ForPaths(out, base, v, ps, pns, deployment) ==
    IF ps = <<>> THEN out
    ELSE ForPaths(ForParamNames(out, base, v, Head(ps), pns, deployment),
                  base, v, Tail(ps), pns, deployment)

\* for (const v of versions) ...
RECURSIVE ForVersions(_, _, _, _, _, _)
ForVersions(out, base, vs, ps, pns, deployment) ==
    IF vs = <<>> THEN out
    ELSE ForVersions(ForPaths(out, base, Head(vs), ps, pns, deployment),
                     base, Tail(vs), ps, pns, deployment)

\* the loops nested the other way round: parameter name outermost, version innermost
RECURSIVE ForVersionsInner(_, _, _, _, _, _)
ForVersionsInner(out, base, vs, p, pn, deployment) ==
    IF vs = <<>> THEN out
    ELSE ForVersionsInner(Append(out, CandidateUrl(base, Head(vs), p, pn, deployment)),
                          base, Tail(vs), p, pn, deployment)

RECURSIVE ForPathsMiddle(_, _, _, _, _, _)
ForPathsMiddle(out, base, vs, ps, pn, deployment) ==
    IF ps = <<>> THEN out
    ELSE ForPathsMiddle(ForVersionsInner(out, base, vs, Head(ps), pn, deployment),
                        base, vs, Tail(ps), pn, deployment)

RECURSIVE ForParamNamesOuter(_, _, _, _, _, _)
ForParamNamesOuter(out, base, vs, ps, pns, deployment) ==
    IF pns = <<>> THEN out
    ELSE ForParamNamesOuter(ForPathsMiddle(out, base, vs, ps, Head(pns), deployment),
                            base, vs, ps, Tail(pns), deployment)

buildCandidatesParamOuter(endpoint, versions, paths, paramNames, deployment) ==
    ForParamNamesOuter(<<>>, httpToWss(stripTrailingSlashes(endpoint)),
                       versions, paths, paramNames, deployment)

\* a generator whose `out` array outlives the call: it starts from what the
\* previous call returned
buildCandidatesSharedOut(endpoint, versions, paths, paramNames, deployment) ==
    ForVersions(gen.out, httpToWss(stripTrailingSlashes(endpoint)),
                versions, paths, paramNames, deployment)

\* index.js buildCandidates
buildCandidates(endpoint, versions, paths, paramNames, deployment) ==
    ForVersions(<<>>, httpToWss(stripTrailingSlashes(endpoint)),
                versions, paths, paramNames, deployment)

(***************************************************************************)
(* Configuration read at module load                                       *)
(***************************************************************************)
\* index.js line 24 / part_003 line 25: (process.env.AZURE_OPENAI_ENDPOINT || "").replace(/\/+$/, "")
AOAI_ENDPOINT == stripTrailingSlashes(env.AZURE_OPENAI_ENDPOINT)

\* process.env.AZURE_OPENAI_API_KEY || ""  (Empty is the falsy value in both files)
AOAI_API_KEY == env.AZURE_OPENAI_API_KEY

\* process.env.AZURE_OPENAI_REALTIME_DEPLOYMENT || "gpt-realtime"
AOAI_DEPLOYMENT ==
    IF env.AZURE_OPENAI_REALTIME_DEPLOYMENT = Empty
    THEN <<"gpt-realtime">>
    ELSE env.AZURE_OPENAI_REALTIME_DEPLOYMENT

\* index.js: process.env.AZURE_OPENAI_API_VERSION || "2024-10-01-preview"
AOAI_API_VERSION ==
    IF env.AZURE_OPENAI_API_VERSION = Empty
    THEN <<"2024-10-01-preview">>
    ELSE env.AZURE_OPENAI_API_VERSION

\* part_003: process.env.AZURE_OPENAI_API_VERSION, optional
AOAI_API_VERSION_ENV == env.AZURE_OPENAI_API_VERSION

\* index.js lines 139-141
versions == <<AOAI_API_VERSION, <<"2025-08-28">>>>
paths == << <<"realtime">>, <<"realtime/audio">> >>
params == << <<"deployment">>, <<"deploymentId">> >>

\* part_003 lines 104-107
apiVersions ==
    << IF AOAI_API_VERSION_ENV = Empty THEN <<"2025-08-28">> ELSE AOAI_API_VERSION_ENV,
       <<"2024-10-21-preview">> >>

\* part_003 lines 109-114: the four URL builders, as (path, parameter name) pairs
pathVariants ==
    << [path |-> <<"realtime">>, param |-> <<"deployment">>],
       [path |-> <<"realtime">>, param |-> <<"deploymentId">>],
       [path |-> <<"realtime/audio">>, param |-> <<"deployment">>],
       [path |-> <<"realtime/audio">>, param |-> <<"deploymentId">>] >>

\* build(ver, dep) of one path variant
BuildVariant(b, ver, dep) ==
    CandidateUrl(wsBaseFromHttp(AOAI_ENDPOINT), ver, b.path, b.param, dep)

\* part_003 lines 153-155: the URLs in the order the two loops visit them
RECURSIVE ForBuilders(_, _, _, _)
ForBuilders(out, ver, builders, dep) ==
    IF builders = <<>> THEN out
    ELSE ForBuilders(Append(out, BuildVariant(Head(builders), ver, dep)),
                     ver, Tail(builders), dep)

RECURSIVE ForApiVersions(_, _, _, _)
ForApiVersions(out, vers, builders, dep) ==
    IF vers = <<>> THEN out
    ELSE ForApiVersions(ForBuilders(out, Head(vers), builders, dep),
                        Tail(vers), builders, dep)

\* the candidate list of the running handler
CandidateList ==
    IF variant = "index"
    THEN buildCandidates(AOAI_ENDPOINT, versions, paths, params, AOAI_DEPLOYMENT)
    ELSE ForApiVersions(<<>>, apiVersions, pathVariants, AOAI_DEPLOYMENT)

\* a check that looks at the endpoint and the deployment only
MissingConfigKeyUnchecked ==
    \/ AOAI_ENDPOINT = Empty
    \/ AOAI_DEPLOYMENT = Empty

\* if (!AOAI_ENDPOINT || !AOAI_API_KEY || !AOAI_DEPLOYMENT)
MissingConfig ==
    \/ AOAI_ENDPOINT = Empty
    \/ AOAI_API_KEY = Empty
    \/ AOAI_DEPLOYMENT = Empty

(***************************************************************************)
(* One connection attempt                                                  *)
(***************************************************************************)
\* The result objects of both files in one record shape; 0, Empty and "" stand
\* for an absent (undefined, falsy) field.  `status` is the field `http` of part_003.
Result(ok, url, status, location, error, note) ==
    [ok |-> ok, url |-> url, status |-> status, location |-> location,
     error |-> error, note |-> note, chain |-> <<>>]

NoResult == Result(FALSE, Empty, 0, Empty, "", "")

\* the events of one attempt: the three WebSocket events and the expiry of its timer
EvOpen == [name |-> "open", status |-> 0, location |-> Empty]
EvError == [name |-> "error", status |-> 0, location |-> Empty]
EvTimer == [name |-> "timer", status |-> 0, location |-> Empty]
EvUnexpected(sc, loc) == [name |-> "unexpected-response", status |-> sc, location |-> loc]
NoEvent == [name |-> "none", status |-> 0, location |-> Empty]

\* the promise of `new Promise((resolve) => ...)`
Pending == [settled |-> FALSE, value |-> NoResult]

\* a promise whose resolve function stores every value it is called with
ResolveOverwrite(p, result) == [settled |-> TRUE, value |-> result]

\* resolve(result): the first call settles the promise, later calls are ignored
Resolve(p, result) ==
    IF p.settled THEN p ELSE [settled |-> TRUE, value |-> result]

\* the invocation whose callback is running: 1, or 2 while invocation 1 is parked
Running == IF other.pc = "off" THEN 1 ELSE 3 - other.id

\* the state of one attempt right after `new WebSocket(url, ...)` and the
\* registration of its listeners and timer; firstEvent, run (the invocation
\* that created the socket) and timerSaw (how many sockets the run had created
\* when this attempt's timer expired, 0 before) are history fields, and sent
\* counts the calls of ws.send: no callback of either file makes one
NewAttempt(i, h, url) ==
    [cand |-> i, hop |-> h, url |-> url, done |-> FALSE, closed |-> FALSE,
     promise |-> Pending, heard |-> {}, firstEvent |-> NoEvent, sent |-> 0,
     run |-> Running, timerSaw |-> 0]

\* index.js lines 59-71: the result each listener passes to finish
ResultIndex(url, ev) ==
    CASE ev.name = "open" -> Result(TRUE, url, 0, Empty, "", "OPEN")
      [] ev.name = "unexpected-response" ->
            Result(FALSE, url, ev.status, ev.location, "", "UNEXPECTED")
      [] ev.name = "error" -> Result(FALSE, url, 0, Empty, "err", "")
      [] OTHER -> Result(FALSE, url, 0, Empty, "timeout", "")

\* a finish that closes the socket only after a failed handshake
finishNoCloseOnOpen(a, result) ==
    IF a.done THEN a
    ELSE [a EXCEPT !.done = TRUE, !.closed = ~result.ok,
                   !.promise = Resolve(a.promise, result)]

\* a finish without the `done` guard whose resolve takes every value
finishLastWins(a, result) ==
    [a EXCEPT !.done = TRUE, !.closed = TRUE,
              !.promise = [settled |-> TRUE, value |-> result]]

\* index.js lines 52-57
finish(a, result) ==
    IF a.done THEN a
    ELSE [a EXCEPT !.done = TRUE, !.closed = TRUE,
                   !.promise = Resolve(a.promise, result)]

\* part_003 lines 126-150: the four callbacks of tryOnce (`done` is its `settled`)
tryOnceOpen(a) ==
    [a EXCEPT !.done = TRUE, !.closed = TRUE,
              !.promise = Resolve(a.promise, Result(TRUE, a.url, 0, Empty, "", "connected"))]

tryOnceUnexpected(a, ev) ==
    [a EXCEPT !.done = TRUE,
              !.promise = Resolve(a.promise, Result(FALSE, a.url, ev.status, Empty, "", "HTTP")),
              !.closed = TRUE]

tryOnceError(a) ==
    IF a.done THEN a
    ELSE [a EXCEPT !.done = TRUE,
                   !.promise = Resolve(a.promise, Result(FALSE, a.url, 0, Empty, "err", ""))]

tryOnceTimer(a) ==
    IF ~a.done
    THEN [a EXCEPT !.done = TRUE, !.closed = TRUE,
                   !.promise = Resolve(a.promise, Result(FALSE, a.url, 0, Empty, "timeout", ""))]
    ELSE a

\* the callback that event ev runs on attempt a
Handle(a, ev) ==
    IF variant = "index"
    THEN finish(a, ResultIndex(a.url, ev))
    ELSE CASE ev.name = "open" -> tryOnceOpen(a)
           [] ev.name = "unexpected-response" -> tryOnceUnexpected(a, ev)
           [] ev.name = "error" -> tryOnceError(a)
           [] OTHER -> tryOnceTimer(a)

\* ws.once (index.js) removes a listener after its first event; ws.on (part_003)
\* keeps it; a timer expires once
CanFire(a, ev) ==
    IF variant = "index" \/ ev.name = "timer"
    THEN ev.name \notin a.heard
    ELSE TRUE

(***************************************************************************)
(* The environment: what the remote and the network may do                 *)
(***************************************************************************)
Statuses == {301, 302, 404}

\* a redirect target on another host, as an https URL
LocFresh == <<"h", "t", "t", "p", "s", ":", "/", "/", "b">>

\* a relative reference: no scheme, `new URL` rejects it
LocRelative == <<"/", "x">>

Locations == {Empty, LocFresh, LocRelative}

\* `new WebSocket(url)` throws a SyntaxError unless the URL is absolute with scheme ws or wss
Usable(url) ==
    \/ StartsWithCI(url, <<"w", "s", ":">>)
    \/ StartsWithCI(url, <<"w", "s", "s", ":">>)

\* events that do not count against MaxDev: an accepted upgrade, the remote's
\* usual answer, and a redirect target that redirects the way the original did
Free(a, ev) ==
    /\ ~a.promise.settled
    /\ \/ ev.name = "open"
       \/ usual = "404" /\ ev = EvUnexpected(404, Empty)
       \/ usual = "silence" /\ ev.name = "timer"
       \/ a.hop > 0 /\ ev = EvUnexpected(first.status, LocFresh)

\* event ev reaches attempt k and its callback runs to completion
Deliver(k, ev) ==
    /\ k \in 1..Len(attempts)
    /\ CanFire(attempts[k], ev)
    /\ IF Free(attempts[k], ev)
       THEN dev' = dev
       ELSE dev < MaxDev /\ dev' = dev + 1
    /\ attempts' = [attempts EXCEPT ![k] =
           [Handle(@, ev) EXCEPT
               !.heard = @ \cup {ev.name},
               !.firstEvent = IF @ = NoEvent THEN ev ELSE @,
               !.timerSaw = IF ev.name = "timer" THEN Len(attempts) ELSE @]]
    /\ UNCHANGED <<variant, env, pc, candidates, idx, hop, first, trace, response, usual, gen, hook, other, once>>

\* ws "open"
Open(k) ==
    /\ k \in 1..Len(attempts)
    /\ Deliver(k, EvOpen)

\* ws "unexpected-response"
UnexpectedResponse(k) ==
    /\ k \in 1..Len(attempts)
    /\ \E sc \in Statuses, loc \in Locations :
           Deliver(k, EvUnexpected(sc, loc))

\* ws "error"
Error(k) ==
    /\ k \in 1..Len(attempts)
    /\ Deliver(k, EvError)

\* a timer that never resolves the attempt
TimerIgnored(k) ==
    /\ k \in 1..Len(attempts)
    /\ "timer" \notin attempts[k].heard
    /\ attempts' = [attempts EXCEPT ![k].heard = @ \cup {"timer"}]
    /\ UNCHANGED <<variant, env, pc, candidates, idx, hop, first, trace, response,
                   dev, usual, gen, hook, other, once>>

\* setTimeout callback (8000 ms in index.js, 7000 ms in part_003)
TimerExpires(k) ==
    /\ k \in 1..Len(attempts)
    /\ Deliver(k, EvTimer)

(***************************************************************************)
(* The /test-realtime handler                                              *)
(***************************************************************************)
NoResponse == [status |-> 0, kind |-> "none", trace |-> <<>>]

\* res.status(s).send(...); the success and failure reports render the trace
Send(s, kind, tr) ==
    /\ response' = [status |-> s, kind |-> kind, trace |-> tr]
    /\ pc' = "done"

\* tryWebSocketOnce(url) / tryOnce(url) up to the await: the constructor either
\* yields a socket, or throws, which rejects the promise and ends in the
\* handler's catch block
StartAttempt(i, h, url) ==
    /\ idx' = i
    /\ hop' = h
    /\ IF Usable(url)
       THEN /\ attempts' = Append(attempts, NewAttempt(i, h, url))
            /\ pc' = "await"
            /\ response' = response
       ELSE /\ attempts' = attempts
            /\ Send(500, "exception", <<>>)

\* a loop whose failure report leaves the trace out
NextRoundEmptyReport(i, tr) ==
    /\ trace' = tr
    /\ IF i > Len(candidates')
       THEN /\ Send(502, "failed", <<>>)
            /\ UNCHANGED <<idx, hop, attempts>>
       ELSE StartAttempt(i, 0, candidates'[i])

\* a loop that walks the candidate list from its end
NextRoundReversed(i, tr) ==
    /\ trace' = tr
    /\ IF i > Len(candidates')
       THEN /\ Send(502, "failed", tr)
            /\ UNCHANGED <<idx, hop, attempts>>
       ELSE StartAttempt(i, 0, candidates'[Len(candidates') + 1 - i])

\* the loop head for candidate i with tr collected so far
NextRound(i, tr) ==
    /\ trace' = tr
    /\ IF i > Len(candidates')
       THEN /\ Send(502, "failed", tr)
            /\ UNCHANGED <<idx, hop, attempts>>
       ELSE StartAttempt(i, 0, candidates'[i])

\* a loop that does not stop at the first success
AfterPushNoStop(r, tr) ==
    /\ candidates' = candidates
    /\ NextRound(idx + 1, tr)

\* lines 154-180: trace.push(r); if (r.ok) return the success report; else next round
AfterPush(r, tr) ==
    /\ candidates' = candidates
    /\ IF r.ok
       THEN /\ trace' = tr
            /\ Send(200, "success", tr)
            /\ UNCHANGED <<idx, hop, attempts>>
       ELSE NextRound(idx + 1, tr)

\* a handler whose trace array is shared by the invocations: it starts from
\* what the other invocation has collected
HandleRequestSharedTrace ==
    /\ pc = "start"
    /\ IF MissingConfig
       THEN /\ Send(500, "missing", <<>>)
            /\ UNCHANGED <<candidates, idx, hop, trace, attempts>>
       ELSE /\ candidates' = CandidateList
            /\ NextRound(1, IF other.pc = "off" THEN <<>> ELSE other.trace)
    /\ UNCHANGED <<variant, env, first, dev, usual, gen, hook, other, once>>

\* the handler from its entry to its first await
HandleRequest ==
    /\ pc = "start"
    /\ IF MissingConfig
       THEN /\ Send(500, "missing", <<>>)
            /\ UNCHANGED <<candidates, idx, hop, trace, attempts>>
       ELSE /\ candidates' = CandidateList
            /\ NextRound(1, <<>>)
    /\ UNCHANGED <<variant, env, first, dev, usual, gen, hook, other, once>>

\* index.js lines 212-214: if (!AOAI_ENDPOINT || !AOAI_API_KEY)
MissingEndpointOrKey ==
    \/ AOAI_ENDPOINT = Empty
    \/ AOAI_API_KEY = Empty

\* req.query of /ws-once: absent parameters, or all three given
NoQuery == [ver |-> Empty, path |-> Empty, param |-> Empty]
Queries ==
    { NoQuery,
      [ver |-> <<"2025-08-28">>, path |-> <<"realtime/audio">>, param |-> <<"deploymentId">>] }

\* index.js lines 215-221: req.query.x || default, then the template literal
WsOnceUrl(q) ==
    CandidateUrl(httpToWss(stripTrailingSlashes(AOAI_ENDPOINT)),
                 IF q.ver = Empty THEN AOAI_API_VERSION ELSE q.ver,
                 IF q.path = Empty THEN <<"realtime">> ELSE q.path,
                 IF q.param = Empty THEN <<"deployment">> ELSE q.param,
                 AOAI_DEPLOYMENT)

\* index.js /ws-once from its entry to its first await
HandleWsOnce ==
    /\ pc = "start" /\ variant = "index"
    /\ IF MissingEndpointOrKey
       THEN /\ Send(500, "missing", <<>>)
            /\ UNCHANGED <<idx, hop, attempts>>
       ELSE \E q \in Queries : StartAttempt(0, 0, WsOnceUrl(q))
    /\ UNCHANGED <<variant, env, candidates, first, trace, dev, usual, gen, hook, other, once>>

\* index.js lines 224-238: the three reports of /ws-once, all with status 200
WsOnceReport(r) ==
    /\ Send(200, IF r.ok THEN "opened" ELSE IF r.status # 0 THEN "unexpected" ELSE "error", <<>>)
    /\ UNCHANGED <<candidates, idx, hop, trace, attempts>>

\* `return` of tryWithRedirect to its caller: /ws-once (line 223) or the loop of
\* /test-realtime (line 153)
Return(r) ==
    IF idx = 0 THEN WsOnceReport(r) ELSE AfterPush(r, Append(trace, r))

Current == attempts[Len(attempts)]

\* a test that follows whatever answer carries a Location
IsRedirectAnyStatus(r) == r.status # 0 /\ r.location # Empty

\* index.js line 80
IsRedirect(r) == (r.status = 301 \/ r.status = 302) /\ r.location # Empty

\* index.js: the continuation of `await tryWebSocketOnce(url)` at line 77
ResumeFirst ==
    /\ pc = "await" /\ variant = "index" /\ hop = 0
    /\ Current.promise.settled
    /\ LET f == Current.promise.value IN
       IF ~f.ok /\ IsRedirect(f)
       THEN /\ first' = f
            /\ StartAttempt(idx, 1, httpToWss(f.location))
            /\ UNCHANGED <<candidates, trace>>
       ELSE /\ first' = first
            /\ Return(f)
    /\ UNCHANGED <<variant, env, dev, usual, gen, hook, other, once>>

\* a follow-up that is itself passed through the redirect logic
ResumeSecondFollowsAgain ==
    /\ pc = "await" /\ variant = "index" /\ hop >= 1
    /\ Current.promise.settled
    /\ LET second == Current.promise.value IN
       IF ~second.ok /\ IsRedirect(second)
       THEN /\ first' = second
            /\ StartAttempt(idx, hop + 1, httpToWss(second.location))
            /\ UNCHANGED <<candidates, trace>>
       ELSE /\ first' = first
            /\ Return([second EXCEPT !.chain = <<first, second>>])
    /\ UNCHANGED <<variant, env, dev, usual, gen, hook, other, once>>

\* a follow-up whose two results are pushed as two trace entries
ResumeSecondTwoEntries ==
    /\ pc = "await" /\ variant = "index" /\ hop = 1
    /\ Current.promise.settled
    /\ LET second == Current.promise.value IN
       AfterPush(second, trace \o <<first, second>>)
    /\ UNCHANGED <<variant, env, first, dev, usual, gen, hook, other, once>>

\* index.js: the continuation of `await tryWebSocketOnce(follow)` at line 83
ResumeSecond ==
    /\ pc = "await" /\ variant = "index" /\ hop = 1
    /\ Current.promise.settled
    /\ LET second == Current.promise.value
           r == [second EXCEPT !.chain = <<first, second>>]
       IN  Return(r)
    /\ UNCHANGED <<variant, env, first, dev, usual, gen, hook, other, once>>

\* part_003: the continuation of `await tryOnce(url)` at line 157
ResumeTryOnce ==
    /\ pc = "await" /\ variant = "part_003"
    /\ Current.promise.settled
    /\ AfterPush(Current.promise.value, Append(trace, Current.promise.value))
    /\ UNCHANGED <<variant, env, first, dev, usual, gen, hook, other, once>>

(***************************************************************************)
(* Specification of the probe run                                          *)
(***************************************************************************)
\* unset, an https URL with a trailing slash, and a host name without a scheme
EnvEndpoints == {Empty, <<"h", "t", "t", "p", "s", ":", "/", "/", "a", "/">>, <<"a">>}
EnvKeys == {Empty, <<"k">>}
EnvVersions == {Empty, <<"2025-08-28">>}

NoGen == [mode |-> "off"]

NoHook == [pc |-> "off"]

NoOther == [pc |-> "off"]

NoOnce == [pc |-> "off"]

Init ==
    /\ variant \in {"index", "part_003"}
    /\ env \in [AZURE_OPENAI_ENDPOINT : EnvEndpoints,
                AZURE_OPENAI_API_KEY : EnvKeys,
                AZURE_OPENAI_API_VERSION : EnvVersions,
                AZURE_OPENAI_REALTIME_DEPLOYMENT : {Empty}]
    /\ usual \in {"404", "silence"}
    /\ pc = "start"
    /\ candidates = <<>>
    /\ idx = 0
    /\ hop = 0
    /\ first = NoResult
    /\ trace = <<>>
    /\ attempts = <<>>
    /\ response = NoResponse
    /\ dev = 0
    /\ gen = NoGen
    /\ hook = NoHook
    /\ other = NoOther
    /\ once = NoOnce

\* sockets per run for which events are enumerated (two per candidate, eight candidates)
MaxAttempts == 16

Next ==
    \/ HandleRequest
    \/ HandleWsOnce
    \/ ResumeFirst
    \/ ResumeSecond
    \/ ResumeTryOnce
    \/ \E k \in 1..MaxAttempts : Open(k)
    \/ \E k \in 1..MaxAttempts : UnexpectedResponse(k)
    \/ \E k \in 1..MaxAttempts : Error(k)
    \/ \E k \in 1..MaxAttempts : TimerExpires(k)

Spec == Init /\ [][Next]_vars

(***************************************************************************)
(* The run under the scheduling Node.js guarantees: a continuation whose   *)
(* promise has settled runs, and a timer that was set expires.  Nothing is *)
(* assumed of the remote: the socket events carry no fairness.  The remote *)
(* is the one that usually stays silent, so that no timer expiry is cut    *)
(* off by MaxDev.                                                          *)
(***************************************************************************)
FairInit == Init /\ usual = "silence"

FairSpec ==
    /\ FairInit
    /\ [][Next]_vars
    /\ WF_vars(HandleRequest \/ HandleWsOnce)
    /\ WF_vars(ResumeFirst)
    /\ WF_vars(ResumeSecond)
    /\ WF_vars(ResumeTryOnce)
    /\ \A k \in 1..MaxAttempts : WF_vars(TimerExpires(k))

(***************************************************************************)
(* Two invocations of /test-realtime of index.js.  The variables pc,       *)
(* candidates, idx, hop, first, trace, attempts and response are the       *)
(* locals of the invocation whose callback is running; those of the other  *)
(* invocation are parked in `other`.  The event loop may turn to the other *)
(* invocation between any two callbacks.  The remote answers a handshake   *)
(* by accepting it or with its usual 404 and does nothing else, so no      *)
(* redirect follow-up, error or timeout occurs.                            *)
(***************************************************************************)
Locals ==
    [pc |-> pc, candidates |-> candidates, idx |-> idx, hop |-> hop, first |-> first,
     trace |-> trace, attempts |-> attempts, response |-> response]

FreshLocals ==
    [pc |-> "start", candidates |-> <<>>, idx |-> 0, hop |-> 0, first |-> NoResult,
     trace |-> <<>>, attempts |-> <<>>, response |-> NoResponse]

Parked(id, locals) ==
    [id |-> id, pc |-> locals.pc, candidates |-> locals.candidates, idx |-> locals.idx,
     hop |-> locals.hop, first |-> locals.first, trace |-> locals.trace,
     attempts |-> locals.attempts, response |-> locals.response]

\* the event loop runs a callback of the other invocation next
SwitchRun ==
    /\ other.pc # "off"
    /\ other' = Parked(Running, Locals)
    /\ pc' = other.pc
    /\ candidates' = other.candidates
    /\ idx' = other.idx
    /\ hop' = other.hop
    /\ first' = other.first
    /\ trace' = other.trace
    /\ attempts' = other.attempts
    /\ response' = other.response
    /\ UNCHANGED <<variant, env, dev, usual, gen, hook, once>>

TwoInit ==
    /\ variant = "index"
    /\ env = [AZURE_OPENAI_ENDPOINT |-> <<"h", "t", "t", "p", "s", ":", "/", "/", "a", "/">>,
              AZURE_OPENAI_API_KEY |-> <<"k">>,
              AZURE_OPENAI_API_VERSION |-> Empty,
              AZURE_OPENAI_REALTIME_DEPLOYMENT |-> Empty]
    /\ usual = "404"
    /\ dev = MaxDev
    /\ pc = "start"
    /\ candidates = <<>>
    /\ idx = 0
    /\ hop = 0
    /\ first = NoResult
    /\ trace = <<>>
    /\ attempts = <<>>
    /\ response = NoResponse
    /\ other = Parked(2, FreshLocals)
    /\ gen = NoGen
    /\ hook = NoHook
    /\ once = NoOnce

TwoNext ==
    \/ HandleRequest
    \/ ResumeFirst
    \/ \E k \in 1..MaxAttempts : Open(k)
    \/ \E k \in 1..MaxAttempts : UnexpectedResponse(k)
    \/ SwitchRun

SpecTwo == TwoInit /\ [][TwoNext]_vars

(***************************************************************************)
(* Specification of the candidate generator on drawn inputs                *)
(***************************************************************************)
SeqsUpTo(S, n) == UNION {[1..m -> S] : m \in 0..n}

GenEndpoints ==
    { <<"h", "t", "t", "p", "s", ":", "/", "/", "a">>,
      <<"h", "t", "t", "p", ":", "/", "/", "a", "/">>,
      <<"H", "T", "T", "P", "S", ":", "/", "/", "a", "/", "/">> }
GenVersions == { <<"2024-10-01-preview">>, <<"2025-08-28">> }
GenPaths == { <<"realtime">>, <<"realtime/audio">> }
GenParamNames == { <<"deployment">>, <<"deploymentId">> }
GenDeployments == { <<"gpt-realtime">>, <<"my", " ", "dep">> }

GenInit ==
    /\ variant \in {"index", "part_003"}
    /\ \E e \in GenEndpoints :
          env = [AZURE_OPENAI_ENDPOINT |-> e, AZURE_OPENAI_API_KEY |-> <<"k">>,
                 AZURE_OPENAI_API_VERSION |-> Empty,
                 AZURE_OPENAI_REALTIME_DEPLOYMENT |-> Empty]
    /\ gen \in [mode : {"ready"},
                versions : SeqsUpTo(GenVersions, MaxListLen),
                paths : SeqsUpTo(GenPaths, MaxListLen),
                paramNames : SeqsUpTo(GenParamNames, MaxListLen),
                deployment : GenDeployments,
                out : {<<>>},
                out2 : {<<>>}]
    /\ usual = "404"
    /\ pc = "idle"
    /\ candidates = <<>>
    /\ idx = 0
    /\ hop = 0
    /\ first = NoResult
    /\ trace = <<>>
    /\ attempts = <<>>
    /\ response = NoResponse
    /\ dev = 0
    /\ hook = NoHook
    /\ other = NoOther
    /\ once = NoOnce

\* index.js: one call of buildCandidates
GenerateCandidates ==
    /\ gen.mode = "ready" /\ variant = "index"
    /\ gen' = [gen EXCEPT
                 !.mode = "done",
                 !.out = buildCandidates(env.AZURE_OPENAI_ENDPOINT, gen.versions,
                                         gen.paths, gen.paramNames, gen.deployment)]
    /\ UNCHANGED <<variant, env, pc, candidates, idx, hop, first, trace, attempts,
                   response, dev, usual, hook, other, once>>

\* part_003 lines 153-155: the URLs its two loops build, for a drawn version list
GenerateVariants ==
    /\ gen.mode = "ready" /\ variant = "part_003"
    /\ gen' = [gen EXCEPT
                 !.mode = "done",
                 !.out = ForApiVersions(<<>>, gen.versions, pathVariants, gen.deployment)]
    /\ UNCHANGED <<variant, env, pc, candidates, idx, hop, first, trace, attempts,
                   response, dev, usual, hook, other, once>>

\* index.js: a second call of buildCandidates with the arguments of the first
GenerateAgain ==
    /\ gen.mode = "done" /\ variant = "index"
    /\ gen' = [gen EXCEPT
                 !.mode = "again",
                 !.out2 = buildCandidates(env.AZURE_OPENAI_ENDPOINT, gen.versions,
                                          gen.paths, gen.paramNames, gen.deployment)]
    /\ UNCHANGED <<variant, env, pc, candidates, idx, hop, first, trace, attempts,
                   response, dev, usual, hook, other, once>>

GenNext == GenerateCandidates \/ GenerateVariants \/ GenerateAgain

SpecGen == GenInit /\ [][GenNext]_vars

(***************************************************************************)
(* Specification of the scheme rewriting on drawn URLs                     *)
(***************************************************************************)
\* longest part after "://" of a drawn URL
MaxRestLen == 3

UrlSchemes ==
    { <<"h", "t", "t", "p">>, <<"h", "t", "t", "p", "s">>,
      <<"H", "T", "T", "P">>, <<"H", "t", "t", "p", "S">>,
      <<"w", "s">>, <<"w", "s", "s">> }
UrlRestSymbols == {"a", ":", "/", "?", "h"}
UrlInputs ==
    { sch \o <<":", "/", "/">> \o rest :
        sch \in UrlSchemes, rest \in SeqsUpTo(UrlRestSymbols, MaxRestLen) }

UrlInit ==
    /\ variant \in {"index", "part_003"}
    /\ env = [AZURE_OPENAI_ENDPOINT |-> Empty, AZURE_OPENAI_API_KEY |-> Empty,
              AZURE_OPENAI_API_VERSION |-> Empty,
              AZURE_OPENAI_REALTIME_DEPLOYMENT |-> Empty]
    /\ gen \in [mode : {"url"}, url : UrlInputs, out : {<<>>}]
    /\ usual = "404"
    /\ pc = "idle"
    /\ candidates = <<>>
    /\ idx = 0
    /\ hop = 0
    /\ first = NoResult
    /\ trace = <<>>
    /\ attempts = <<>>
    /\ response = NoResponse
    /\ dev = 0
    /\ hook = NoHook
    /\ other = NoOther
    /\ once = NoOnce

\* index.js: httpToWss applied to an endpoint or to a Location value
ApplyHttpToWss ==
    /\ gen.mode = "url" /\ variant = "index"
    /\ gen' = [gen EXCEPT !.mode = "rewritten", !.out = httpToWss(gen.url)]
    /\ UNCHANGED <<variant, env, pc, candidates, idx, hop, first, trace, attempts,
                   response, dev, usual, hook, other, once>>

\* part_003: wsBaseFromHttp applied to an endpoint
ApplyWsBaseFromHttp ==
    /\ gen.mode = "url" /\ variant = "part_003"
    /\ gen' = [gen EXCEPT !.mode = "rewritten", !.out = wsBaseFromHttp(gen.url)]
    /\ UNCHANGED <<variant, env, pc, candidates, idx, hop, first, trace, attempts,
                   response, dev, usual, hook, other, once>>

UrlNext == ApplyHttpToWss \/ ApplyWsBaseFromHttp

SpecUrl == UrlInit /\ [][UrlNext]_vars

(***************************************************************************)
(* The /acs/inbound webhook                                                *)
(***************************************************************************)
\* longest event array drawn for a request body
MaxBatch == 3

SubscriptionValidationEvent(code) ==
    [eventType |-> "Microsoft.EventGrid.SubscriptionValidationEvent",
     validationCode |-> code, incomingCallContext |-> Empty]
IncomingCall(ctx) ==
    [eventType |-> "IncomingCall", validationCode |-> Empty, incomingCallContext |-> ctx]
OtherEvent ==
    [eventType |-> "Microsoft.Communication.CallConnected",
     validationCode |-> Empty, incomingCallContext |-> Empty]

\* a JSON null in the place of an event object: reading ev.eventType throws a TypeError
NullEvent ==
    [eventType |-> "(null)", validationCode |-> Empty, incomingCallContext |-> Empty]

HookEvents ==
    { SubscriptionValidationEvent(<<"c1">>), SubscriptionValidationEvent(<<"c2">>),
      IncomingCall(<<"ctx">>), OtherEvent, NullEvent }

\* req.body: an array of events, or a single event object
HookBodies ==
    [array : {TRUE}, value : SeqsUpTo(HookEvents, MaxBatch)]
        \cup [array : {FALSE}, value : HookEvents]

\* const events = Array.isArray(req.body) ? req.body : [req.body]
HookEventsOf(body) == IF body.array THEN body.value ELSE <<body.value>>

\* SELF: process.env.SELF_BASE_URL || "" in index.js, || a placeholder URL in part_003
SELF ==
    IF hook.self = Empty /\ variant = "part_003"
    THEN <<"https://YOUR-LINUX-APP.azurewebsites.net">>
    ELSE hook.self

\* callbackUri: SELF ? `${SELF}/acs/inbound` : undefined (index.js), `${SELF}/acs/inbound` (part_003)
CallbackUri ==
    IF variant = "index" /\ SELF = Empty THEN Empty ELSE SELF \o <<"/acs/inbound">>

\* the loop over the events from round i up to its next response or await
RECURSIVE HookLoop(_, _)
HookLoop(h, i) ==
    IF i > Len(h.events)
    THEN [h EXCEPT !.pc = "done", !.i = i,
                   !.sent = Append(@, [status |-> 200, validationResponse |-> Empty])]
    ELSE IF h.events[i] = NullEvent
    THEN IF variant = "index"
         THEN \* the outer catch of index.js: res.sendStatus(200)
              [h EXCEPT !.pc = "done", !.i = i,
                        !.sent = Append(@, [status |-> 200, validationResponse |-> Empty])]
         ELSE \* part_003 has no outer try: the handler's promise rejects
              [h EXCEPT !.pc = "rejected", !.i = i]
    ELSE IF h.events[i].eventType = "Microsoft.EventGrid.SubscriptionValidationEvent"
    THEN [h EXCEPT !.pc = "done", !.i = i,
                   !.sent = Append(@, [status |-> 200,
                                       validationResponse |-> h.events[i].validationCode])]
    ELSE IF h.events[i].eventType = "IncomingCall" /\ h.acs
    THEN [h EXCEPT !.pc = "answering", !.i = i,
                   !.calls = Append(@, [incomingCallContext |-> h.events[i].incomingCallContext,
                                        callbackUri |-> CallbackUri])]
    ELSE HookLoop(h, i + 1)

\* the handler from its entry to its first await or its response
AcsInbound ==
    /\ hook.pc = "start"
    /\ hook' = HookLoop([hook EXCEPT !.events = HookEventsOf(hook.body)], 1)
    /\ UNCHANGED <<variant, env, pc, candidates, idx, hop, first, trace, attempts,
                   response, dev, usual, gen, other, once>>

\* ACS.answerCall resolves: the call id is logged and the loop goes on
AnswerResolves ==
    /\ hook.pc = "answering"
    /\ hook' = HookLoop([hook EXCEPT !.log = Append(@, "answered")], hook.i + 1)
    /\ UNCHANGED <<variant, env, pc, candidates, idx, hop, first, trace, attempts,
                   response, dev, usual, gen, other, once>>

\* ACS.answerCall rejects: the inner catch logs the error and the loop goes on
AnswerRejects ==
    /\ hook.pc = "answering"
    /\ hook' = HookLoop([hook EXCEPT !.log = Append(@, "error")], hook.i + 1)
    /\ UNCHANGED <<variant, env, pc, candidates, idx, hop, first, trace, attempts,
                   response, dev, usual, gen, other, once>>

\* the rejection of the handler's promise reaches a framework that answers it
\* with its own 500 (Express 5); under Express 4 nothing answers the request
FrameworkAnswersRejection ==
    /\ hook.pc = "rejected" /\ hook.sent = <<>>
    /\ hook' = [hook EXCEPT !.sent = Append(@, [status |-> 500, validationResponse |-> Empty])]
    /\ UNCHANGED <<variant, env, pc, candidates, idx, hop, first, trace, attempts,
                   response, dev, usual, gen, other, once>>

HookInit ==
    /\ variant \in {"index", "part_003"}
    /\ env = [AZURE_OPENAI_ENDPOINT |-> Empty, AZURE_OPENAI_API_KEY |-> Empty,
              AZURE_OPENAI_API_VERSION |-> Empty,
              AZURE_OPENAI_REALTIME_DEPLOYMENT |-> Empty]
    /\ hook \in [pc : {"start"}, body : HookBodies, events : {<<>>}, i : {0},
                 acs : BOOLEAN, self : {Empty, <<"https://me">>},
                 sent : {<<>>}, calls : {<<>>}, log : {<<>>}]
    /\ gen = NoGen
    /\ usual = "404"
    /\ pc = "idle"
    /\ candidates = <<>>
    /\ idx = 0
    /\ hop = 0
    /\ first = NoResult
    /\ trace = <<>>
    /\ attempts = <<>>
    /\ response = NoResponse
    /\ dev = 0
    /\ other = NoOther
    /\ once = NoOnce

HookNext == AcsInbound \/ AnswerResolves \/ AnswerRejects \/ FrameworkAnswersRejection

SpecHook == HookInit /\ [][HookNext]_vars

(***************************************************************************)
(* Handlers that hold one socket and answer from its callbacks: /ws-once   *)
(* of part_003 and the single-URL /test-realtime of part_004 and part_001. *)
(***************************************************************************)
SmokeFiles == {"part_004", "part_001"}

\* `${x}` and encodeURIComponent(x) of an unset variable give the text "undefined"
Undefined(x) == IF x = Empty THEN <<"undefined">> ELSE x

\* part_004 lines 52-55, part_001 lines 58-61: the endpoint goes into the URL as it is
SmokeUrl ==
    CandidateUrl(Undefined(env.AZURE_OPENAI_ENDPOINT), Undefined(env.AZURE_OPENAI_API_VERSION),
                 <<"realtime">>, <<"deployment">>,
                 Undefined(env.AZURE_OPENAI_REALTIME_DEPLOYMENT))

\* part_003 lines 194-198
WsOnceUrlPart003(q) ==
    CandidateUrl(wsBaseFromHttp(AOAI_ENDPOINT),
                 IF q.ver = Empty THEN <<"2024-10-21-preview">> ELSE q.ver,
                 IF q.path = Empty THEN <<"realtime">> ELSE q.path,
                 IF q.param = Empty THEN <<"deployment">> ELSE q.param,
                 AOAI_DEPLOYMENT)

\* new WebSocket(url): a ws: or wss: URL is accepted, an http: or https: URL is
\* accepted by some releases of ws and refused by others, anything else throws
ConstructorAccepts(url) ==
    IF Usable(url) THEN {TRUE}
    ELSE IF StartsWithCI(url, <<"h", "t", "t", "p">>) THEN BOOLEAN
    ELSE {FALSE}

\* res.status(s).send(body): every call is recorded; the first one is the response,
\* a later one finds the headers sent and throws inside the callback
ResSend(o, status, body) ==
    [o EXCEPT !.sends = Append(@, [status |-> status, body |-> body])]

\* res.headersSent
HeadersSent(o) == o.sends # <<>>

\* ws.close() / ws.terminate(): a socket still connecting aborts its handshake
CloseSocket(o) ==
    [o EXCEPT !.ready = IF @ = "CLOSED" THEN "CLOSED" ELSE "CLOSING"]

\* the handler from its entry to its return
OnceRequest ==
    /\ once.pc = "start"
    /\ \E accepts \in ConstructorAccepts(IF once.file = "part_003"
                                         THEN WsOnceUrlPart003(once.query)
                                         ELSE SmokeUrl) :
          once' =
             IF once.file = "part_003" /\ MissingEndpointOrKey
             THEN [ResSend(once, 500, "missing") EXCEPT !.pc = "returned"]
             ELSE IF ~accepts
             THEN [ResSend(once, 500, "thrown") EXCEPT !.pc = "returned"]
             ELSE [once EXCEPT !.pc = "listening", !.ready = "CONNECTING",
                               !.timer = IF once.file = "part_003" THEN "armed" ELSE "none"]
    /\ UNCHANGED <<variant, env, pc, candidates, idx, hop, first, trace, attempts,
                   response, dev, usual, gen, hook, other>>

\* part_003 lines 206-210
OnOpenPart003(o) == ResSend(CloseSocket([o EXCEPT !.responded = TRUE]), 200, "opened")

\* part_004 lines 64-68, part_001 line 66
OnOpenSmoke(o) == ResSend(CloseSocket(o), 200, "ok")

\* the remote accepts the upgrade
OnceOpen ==
    /\ once.pc = "listening" /\ once.ready = "CONNECTING"
    /\ once' = [(IF once.file = "part_003"
                 THEN OnOpenPart003([once EXCEPT !.ready = "OPEN"])
                 ELSE OnOpenSmoke([once EXCEPT !.ready = "OPEN"]))
                EXCEPT !.heard = Append(@, "open")]
    /\ UNCHANGED <<variant, env, pc, candidates, idx, hop, first, trace, attempts,
                   response, dev, usual, gen, hook, other>>

\* part_003 lines 212-216
OnUnexpectedResponse(o) ==
    CloseSocket(ResSend([o EXCEPT !.responded = TRUE], 200, "unexpected"))

\* the remote answers the handshake with an HTTP status; only part_003 listens for
\* it, elsewhere ws turns it into an "error" event
OnceUnexpectedResponse ==
    /\ once.pc = "listening" /\ once.ready = "CONNECTING"
    /\ once.file = "part_003"
    /\ once' = [OnUnexpectedResponse(once) EXCEPT !.heard = Append(@, "unexpected-response")]
    /\ UNCHANGED <<variant, env, pc, candidates, idx, hop, first, trace, attempts,
                   response, dev, usual, gen, hook, other>>

\* part_003 lines 218-222
OnErrorPart003(o) ==
    IF o.responded THEN o
    ELSE ResSend([o EXCEPT !.responded = TRUE], 200, "error")

\* part_004 lines 70-73, part_001 line 67
OnErrorSmoke(o) ==
    IF HeadersSent(o) THEN o ELSE ResSend(o, 500, "error")

\* the handshake fails, the connection breaks, or an aborted handshake reports
\* itself; the socket is closed afterwards
OnceError ==
    /\ once.pc = "listening" /\ once.ready # "CLOSED"
    /\ once' = [(IF once.file = "part_003" THEN OnErrorPart003(once) ELSE OnErrorSmoke(once))
                EXCEPT !.ready = "CLOSED", !.heard = Append(@, "error")]
    /\ UNCHANGED <<variant, env, pc, candidates, idx, hop, first, trace, attempts,
                   response, dev, usual, gen, hook, other>>

\* part_003 lines 224-229
OnTimer(o) ==
    IF o.responded THEN o
    ELSE ResSend(CloseSocket(o), 200, "timeout")

\* the 7 s timer of part_003 expires
OnceTimer ==
    /\ once.pc = "listening" /\ once.timer = "armed"
    /\ once' = [OnTimer(once) EXCEPT !.timer = "expired", !.heard = Append(@, "timer")]
    /\ UNCHANGED <<variant, env, pc, candidates, idx, hop, first, trace, attempts,
                   response, dev, usual, gen, hook, other>>

OnceEndpoints ==
    EnvEndpoints \cup {<<"w", "s", "s", ":", "/", "/", "a">>}

OnceInit ==
    /\ variant = "part_003"
    /\ env \in [AZURE_OPENAI_ENDPOINT : OnceEndpoints,
                AZURE_OPENAI_API_KEY : EnvKeys,
                AZURE_OPENAI_API_VERSION : EnvVersions,
                AZURE_OPENAI_REALTIME_DEPLOYMENT : {Empty}]
    /\ once \in [pc : {"start"}, file : {"part_003"} \cup SmokeFiles, query : Queries,
                 ready : {"none"}, timer : {"none"}, responded : {FALSE},
                 sends : {<<>>}, heard : {<<>>}]
    /\ once.file \in SmokeFiles => once.query = NoQuery
    /\ gen = NoGen
    /\ hook = NoHook
    /\ usual = "404"
    /\ pc = "idle"
    /\ candidates = <<>>
    /\ idx = 0
    /\ hop = 0
    /\ first = NoResult
    /\ trace = <<>>
    /\ attempts = <<>>
    /\ response = NoResponse
    /\ dev = 0
    /\ other = NoOther

OnceNext == OnceRequest \/ OnceOpen \/ OnceUnexpectedResponse \/ OnceError \/ OnceTimer

SpecOnce == OnceInit /\ [][OnceNext]_vars

\* the handler runs once the request has arrived, and a timer that was set expires;
\* nothing obliges the remote to answer
FairSpecOnce ==
    /\ OnceInit
    /\ [][OnceNext]_vars
    /\ WF_vars(OnceRequest)
    /\ WF_vars(OnceTimer)


(***************************************************************************)
(* /env-check, asked of two processes whose configurations differ in the   *)
(* API key only.                                                           *)
(***************************************************************************)
\* an echo of the key itself
HasApiKeyEcho(key) == key

\* !!AOAI_API_KEY
HasApiKey(key) == key # Empty

\* index.js lines 116-123, part_003 lines 83-90: the object given to res.json
EnvCheckJson ==
    [AZURE_OPENAI_ENDPOINT |-> AOAI_ENDPOINT,
     AZURE_OPENAI_API_VERSION |->
        IF variant = "index" THEN AOAI_API_VERSION ELSE AOAI_API_VERSION_ENV,
     AZURE_OPENAI_REALTIME_DEPLOYMENT |-> AOAI_DEPLOYMENT,
     HAS_API_KEY |-> HasApiKey(AOAI_API_KEY)]

\* GET /env-check, of the first process and of the one started with the other key
EnvCheck ==
    /\ gen.mode \in {"ready", "restarted"}
    /\ gen' = IF gen.mode = "ready"
              THEN [gen EXCEPT !.mode = "first", !.out = EnvCheckJson]
              ELSE [gen EXCEPT !.mode = "both", !.out2 = EnvCheckJson]
    /\ UNCHANGED <<variant, env, pc, candidates, idx, hop, first, trace, attempts,
                   response, dev, usual, hook, other, once>>

\* the process is started again with AZURE_OPENAI_API_KEY set to the other value
RestartWithOtherKey ==
    /\ gen.mode = "first"
    /\ env' = [env EXCEPT !.AZURE_OPENAI_API_KEY = gen.key2]
    /\ gen' = [gen EXCEPT !.mode = "restarted"]
    /\ UNCHANGED <<variant, pc, candidates, idx, hop, first, trace, attempts,
                   response, dev, usual, hook, other, once>>

EnvCheckKeys == {Empty, <<"k">>, <<"k2">>}

EnvCheckInit ==
    /\ variant \in {"index", "part_003"}
    /\ env \in [AZURE_OPENAI_ENDPOINT : EnvEndpoints,
                AZURE_OPENAI_API_KEY : EnvCheckKeys,
                AZURE_OPENAI_API_VERSION : EnvVersions,
                AZURE_OPENAI_REALTIME_DEPLOYMENT : {Empty, <<"d">>}]
    /\ gen \in [mode : {"ready"}, key1 : {env.AZURE_OPENAI_API_KEY}, key2 : EnvCheckKeys,
                out : {<<>>}, out2 : {<<>>}]
    /\ usual = "404"
    /\ pc = "idle"
    /\ candidates = <<>>
    /\ idx = 0
    /\ hop = 0
    /\ first = NoResult
    /\ trace = <<>>
    /\ attempts = <<>>
    /\ response = NoResponse
    /\ dev = 0
    /\ hook = NoHook
    /\ other = NoOther
    /\ once = NoOnce

EnvCheckNext == EnvCheck \/ RestartWithOtherKey

SpecEnvCheck == EnvCheckInit /\ [][EnvCheckNext]_vars


(***************************************************************************)
(* Vocabulary of the properties                                            *)
(***************************************************************************)
\* the outcome variant a result object stands for
OutcomeOf(r) ==
    IF r.ok THEN "Connected"
    ELSE IF r.status # 0 THEN "Rejected"
    ELSE IF r.error = "timeout" THEN "TimedOut"
    ELSE "TransportError"

\* the outcome variant an event stands for
OutcomeOfEvent(ev) ==
    CASE ev.name = "open" -> "Connected"
      [] ev.name = "unexpected-response" -> "Rejected"
      [] ev.name = "error" -> "TransportError"
      [] OTHER -> "TimedOut"

\* attempt k's outcome has been handed to the run loop
Delivered(k) == k < Len(attempts) \/ pc = "done"

WithoutChain(r) == [r EXCEPT !.chain = <<>>]

AttemptsOf(i) == {k \in 1..Len(attempts) : attempts[k].cand = i}

(***************************************************************************)
(* C1: an attempt resolves to exactly one outcome, the outcome of the      *)
(* first event that fired on it, whatever fires later: an attempt on which *)
(* no event fired is unresolved, and an attempt on which events fired      *)
(* holds the result of the first of them (its outcome variant, the status  *)
(* it carried and, in index.js, its Location); every trace entry is the    *)
(* value some attempt holds.                                               *)
(***************************************************************************)
C1_FirstEventDecides ==
    /\ \A k \in 1..Len(attempts) :
          LET a == attempts[k] IN
          IF a.firstEvent = NoEvent
          THEN ~a.promise.settled
          ELSE /\ a.promise.settled
               /\ OutcomeOf(a.promise.value) = OutcomeOfEvent(a.firstEvent)
               /\ a.promise.value.status = a.firstEvent.status
               /\ a.promise.value.url = a.url
               /\ variant = "index" => a.promise.value.location = a.firstEvent.location
    /\ \A j \in 1..Len(trace) :
          \E k \in 1..Len(attempts) : WithoutChain(trace[j]) = attempts[k].promise.value

\* a delivered attempt on which a second, different event fired afterwards
C1_Witness ==
    \E k \in 1..Len(attempts) :
        /\ Delivered(k)
        /\ Cardinality(attempts[k].heard) >= 2
        /\ \E j \in 1..Len(trace) : WithoutChain(trace[j]) = attempts[k].promise.value

(***************************************************************************)
(* C2: in the sequential run a Connected entry is the last entry of the    *)
(* trace and the only Connected one, the run has reported success, and no  *)
(* handshake was initiated for a candidate after the winner's.             *)
(***************************************************************************)
C2_StopsAtFirstConnected ==
    \A j \in 1..Len(trace) :
        trace[j].ok =>
            /\ j = Len(trace)
            /\ pc = "done" /\ response.kind = "success"
            /\ \A k \in 1..Len(attempts) : attempts[k].cand <= j

\* a run won by a candidate that is neither the first nor the last
C2_Witness ==
    /\ Len(trace) > 1 /\ Len(trace) < Len(candidates)
    /\ trace[Len(trace)].ok

(***************************************************************************)
(* C3: a timer that expires on an unresolved attempt resolves it as        *)
(* TimedOut, and every run eventually sends its response, whatever the     *)
(* remote does, provided continuations run and timers expire.              *)
(***************************************************************************)
C3_TimeoutEndsRun ==
    /\ [][\A k \in 1..Len(attempts) :
            (~attempts[k].promise.settled /\ "timer" \notin attempts[k].heard
                /\ "timer" \in attempts'[k].heard)
            => /\ attempts'[k].promise.settled
               /\ OutcomeOf(attempts'[k].promise.value) = "TimedOut"]_vars
    /\ <>(pc = "done")

\* a run in which the remote never answered: every candidate timed out
C3_Witness ==
    /\ pc = "done" /\ response.kind = "failed"
    /\ Len(trace) = Len(candidates) /\ Len(trace) > 0
    /\ \A j \in 1..Len(trace) : OutcomeOf(trace[j]) = "TimedOut"

(***************************************************************************)
(* C4: per candidate at most two handshakes are initiated, the original    *)
(* and one follow-up; a follow-up is never followed.                       *)
(***************************************************************************)
C4_AtMostOneHop ==
    /\ \A i \in 1..Len(candidates) : Cardinality(AttemptsOf(i)) <= 2
    /\ \A k \in 1..Len(attempts) : attempts[k].hop <= 1

\* a follow-up that was itself answered with a redirect and a Location, after
\* which the run went on to the next candidate
C4_Witness ==
    \E j \in 1..Len(trace) :
        /\ trace[j].chain # <<>>
        /\ IsRedirect(trace[j])
        /\ idx > j

(***************************************************************************)
(* C5, as stated: a candidate answered with 302 and a Location has two     *)
(* entries in the trace, the original Rejected(302, loc) one and the       *)
(* followed one.                                                           *)
(***************************************************************************)
C5_TwoTraceEntries ==
    \A j \in 1..Len(trace) :
        (trace[j].chain # <<>> /\ trace[j].chain[1].status = 302)
        => \E j2 \in 1..Len(trace) : j2 # j /\ trace[j2] = trace[j].chain[1]

(***************************************************************************)
(* C5, amended: a candidate answered with 301/302 and a Location has at    *)
(* most one entry in the trace, at the candidate's position: the followed  *)
(* result, whose chain holds exactly the original Rejected result of that  *)
(* candidate and the followed result itself; the original is never an      *)
(* entry of its own, and no candidate has a further entry.                 *)
(***************************************************************************)
C5_OneEntryWithChain ==
    /\ Len(trace) <= idx
    /\ \A j \in 1..Len(trace) :
          LET r == trace[j] IN
          IF r.chain = <<>>
          THEN r.url = candidates[j] /\ ~IsRedirect(r)
          ELSE /\ Len(r.chain) = 2
               /\ r.chain[1].url = candidates[j]
               /\ ~r.chain[1].ok /\ IsRedirect(r.chain[1])
               /\ r.chain[1].chain = <<>>
               /\ r.chain[2] = WithoutChain(r)
               /\ r.url = httpToWss(r.chain[1].location)

\* the followed result of a 302 has been pushed and the run went on
C5_Witness ==
    \E j \in 1..Len(trace) :
        /\ trace[j].chain # <<>>
        /\ trace[j].chain[1].status = 302
        /\ Len(trace) > j

(***************************************************************************)
(* C6: close or terminate has been invoked on the socket of every attempt  *)
(* whose outcome is settled, whichever of the four outcomes it is.         *)
(***************************************************************************)
C6_ReleasedOnEveryPath ==
    \A k \in 1..Len(attempts) :
        attempts[k].promise.settled => attempts[k].closed

(***************************************************************************)
(* C7: no failure of an attempt ends the run in the catch block: a run of  *)
(* /test-realtime that initiated a handshake ends in a success or failure  *)
(* report that carries every entry collected.                              *)
(***************************************************************************)
C7_AttemptFailuresStayInTrace ==
    (pc = "done" /\ idx > 0 /\ attempts # <<>>) =>
        /\ response.kind \in {"success", "failed"}
        /\ response.trace = trace

(***************************************************************************)
(* C8: the candidate list of a run holds no URL twice.                     *)
(***************************************************************************)
C8_NoDuplicateCandidates ==
    \A i, j \in 1..Len(candidates) : i # j => candidates[i] # candidates[j]

(***************************************************************************)
(* C9: within one run no URL has a handshake initiated twice.              *)
(***************************************************************************)
C9_NoUrlAttemptedTwice ==
    \A k1, k2 \in 1..Len(attempts) : k1 # k2 => attempts[k1].url # attempts[k2].url

(***************************************************************************)
(* C10: the generated sequence is the nested cross product, version        *)
(* outermost, then path, then parameter name: the candidate built from the *)
(* vi-th version, pi-th path and ni-th parameter name stands at position   *)
(* ((vi-1)*|paths| + (pi-1))*|paramNames| + ni, and nothing else is        *)
(* generated.  The four builders of part_003 are the same path-then-name   *)
(* order, inside its loop over the versions.                               *)
(***************************************************************************)
C10_CrossProductOrder ==
    gen.mode = "done" =>
        LET V == gen.versions
            P == IF variant = "index" THEN gen.paths ELSE paths
            N == IF variant = "index" THEN gen.paramNames ELSE params
            base == IF variant = "index"
                    THEN httpToWss(stripTrailingSlashes(env.AZURE_OPENAI_ENDPOINT))
                    ELSE wsBaseFromHttp(AOAI_ENDPOINT)
        IN  /\ Len(gen.out) = Len(V) * Len(P) * Len(N)
            /\ \A vi \in 1..Len(V), pi \in 1..Len(P), ni \in 1..Len(N) :
                  gen.out[((vi - 1) * Len(P) + (pi - 1)) * Len(N) + ni]
                      = CandidateUrl(base, V[vi], P[pi], N[ni], gen.deployment)

\* a generated list in which two versions, two paths and two names all differ
C10_Witness ==
    /\ gen.mode = "done" /\ variant = "index"
    /\ Len(gen.versions) = 2 /\ gen.versions[1] # gen.versions[2]
    /\ Len(gen.paths) = 2 /\ gen.paths[1] # gen.paths[2]
    /\ Len(gen.paramNames) = 2 /\ gen.paramNames[1] # gen.paramNames[2]
    /\ Len(gen.out) = 8

(***************************************************************************)
(* C11: while the endpoint or the API key is missing, no candidate list is *)
(* built and no handshake is initiated, and the request (/test-realtime or *)
(* /ws-once) is answered with the 500 configuration message.               *)
(***************************************************************************)
C11_MissingConfigFailsFast ==
    (AOAI_ENDPOINT = Empty \/ AOAI_API_KEY = Empty) =>
        /\ candidates = <<>>
        /\ attempts = <<>>
        /\ pc = "done" => response = [status |-> 500, kind |-> "missing", trace |-> <<>>]

\* a request answered while the endpoint is set and the key is not
C11_Witness ==
    /\ pc = "done" /\ response.kind = "missing"
    /\ AOAI_ENDPOINT # Empty /\ AOAI_API_KEY = Empty

WellFormedHttp(u) ==
    \/ StartsWithCI(u, <<"h", "t", "t", "p", ":", "/", "/">>) /\ Len(u) > 7
    \/ StartsWithCI(u, <<"h", "t", "t", "p", "s", ":", "/", "/">>) /\ Len(u) > 8

(***************************************************************************)
(* C13: from an endpoint that is not a well-formed HTTP(S) URL no          *)
(* candidate is produced and no handshake is initiated, and the request is *)
(* answered with the configuration message.                                *)
(***************************************************************************)
C13_MalformedEndpointRejected ==
    ~WellFormedHttp(env.AZURE_OPENAI_ENDPOINT) =>
        /\ candidates = <<>>
        /\ attempts = <<>>
        /\ pc = "done" => response.kind = "missing"

(***************************************************************************)
(* C14: a finished run of /test-realtime in which the first answer to      *)
(* every handshake was HTTP 404 without Location has one trace entry per   *)
(* candidate, in candidate order, each Rejected(404, no location), none    *)
(* Connected, and was reported as the 502 failure carrying that trace.     *)
(***************************************************************************)
C14_AllRejectedIsFullTraceFailure ==
    (/\ pc = "done" /\ idx > 0 /\ attempts # <<>>
     /\ \A k \in 1..Len(attempts) : attempts[k].firstEvent = EvUnexpected(404, Empty))
    => /\ Len(trace) = Len(candidates)
       /\ \A j \in 1..Len(trace) :
             /\ OutcomeOf(trace[j]) = "Rejected"
             /\ trace[j].status = 404 /\ trace[j].location = Empty
             /\ trace[j].url = candidates[j] /\ trace[j].chain = <<>>
       /\ response = [status |-> 502, kind |-> "failed", trace |-> trace]

\* the run over all eight candidates has ended that way
C14_Witness ==
    /\ pc = "done" /\ Len(candidates) = 8 /\ Len(attempts) = 8
    /\ \A k \in 1..Len(attempts) : attempts[k].firstEvent = EvUnexpected(404, Empty)
    /\ response.kind = "failed"

(***************************************************************************)
(* C15: only the attempt started last can be unresolved (at most one in    *)
(* flight); attempts are started in candidate order; the j-th trace entry  *)
(* is the result of an attempt of the j-th candidate and originates from   *)
(* that candidate's URL (its own, or the first link of its chain).         *)
(***************************************************************************)
C15_TraceFollowsGeneratorOrder ==
    /\ \A k \in 1..Len(attempts) : k < Len(attempts) => attempts[k].promise.settled
    /\ \A k1, k2 \in 1..Len(attempts) : k1 < k2 => attempts[k1].cand <= attempts[k2].cand
    /\ Len(trace) <= Len(candidates)
    /\ \A j \in 1..Len(trace) :
          /\ (IF trace[j].chain = <<>> THEN trace[j].url ELSE trace[j].chain[1].url)
                 = candidates[j]
          /\ \E k \in AttemptsOf(j) : attempts[k].promise.value = WithoutChain(trace[j])

\* a trace of three entries or more with a redirect-followed entry in the middle
C15_Witness ==
    /\ Len(trace) >= 3
    /\ \E j \in 2..(Len(trace) - 1) : trace[j].chain # <<>>

(***************************************************************************)
(* C16: a candidate none of whose attempts connected is followed by an     *)
(* attempt of the next candidate, when there is one: no run of             *)
(* /test-realtime ends with such a candidate and an untried successor.     *)
(***************************************************************************)
C16_FailureProceedsToNext ==
    \A i \in 1..Len(candidates) :
        (/\ pc = "done" /\ i < Len(candidates)
         /\ AttemptsOf(i) # {}
         /\ \A k \in AttemptsOf(i) :
                attempts[k].promise.settled /\ ~attempts[k].promise.value.ok)
        => AttemptsOf(i + 1) # {}

(***************************************************************************)
(* C17: the socket of every attempt that resolved Connected has been       *)
(* closed, so it is closed before the loop sees the outcome; and on no     *)
(* socket was a payload ever sent.                                         *)
(***************************************************************************)
C17_ClosedBeforeConnectedRecorded ==
    /\ \A k \in 1..Len(attempts) :
          (attempts[k].promise.settled /\ attempts[k].promise.value.ok)
              => attempts[k].closed
    /\ \A k \in 1..Len(attempts) : attempts[k].sent = 0

\* a Connected outcome has been recorded in the trace and reported
C17_Witness ==
    /\ pc = "done" /\ response.kind = "success"
    /\ trace # <<>> /\ trace[Len(trace)].ok
    /\ \E k \in 1..Len(attempts) : attempts[k].firstEvent = EvOpen /\ attempts[k].closed

\* a URL split at its first colon: the scheme, which is case-insensitive and
\* read in lower case, and everything from the colon on
FirstColon(u) == CHOOSE i \in 1..Len(u) : u[i] = ":" /\ \A j \in 1..(i - 1) : u[j] # ":"
SchemeOf(u) == [i \in 1..(FirstColon(u) - 1) |-> Lower(u[i])]
AfterScheme(u) == SubSeq(u, FirstColon(u), Len(u))

\* the scheme the transformation is specified to produce
RewrittenScheme(u) ==
    CASE SchemeOf(u) = <<"h", "t", "t", "p">> -> <<"w", "s">>
      [] SchemeOf(u) = <<"h", "t", "t", "p", "s">> -> <<"w", "s", "s">>
      [] OTHER -> SchemeOf(u)

(***************************************************************************)
(* C18: the rewritten URL has scheme ws where the input has http, wss      *)
(* where it has https (schemes compared without regard to letter case), a  *)
(* ws or wss scheme is kept, and everything from the colon on is           *)
(* unchanged; wsBaseFromHttp of part_003 does the same on the endpoint     *)
(* with its trailing slashes stripped.                                     *)
(***************************************************************************)
C18_SchemeRewritten ==
    gen.mode = "rewritten" =>
        /\ SchemeOf(gen.out) = RewrittenScheme(gen.url)
        /\ AfterScheme(gen.out) =
              IF variant = "index"
              THEN AfterScheme(gen.url)
              ELSE stripTrailingSlashes(AfterScheme(gen.url))

\* an upper-case HTTP URL with a port-like colon and a path has been rewritten
C18_Witness ==
    /\ gen.mode = "rewritten" /\ variant = "index"
    /\ gen.url = <<"H", "T", "T", "P", ":", "/", "/", "a", ":", "/">>
    /\ gen.out = <<"w", "s", ":", "/", "/", "a", ":", "/">>

ValidationPositions ==
    {i \in 1..Len(HookEventsOf(hook.body)) :
        HookEventsOf(hook.body)[i].eventType = "Microsoft.EventGrid.SubscriptionValidationEvent"}

(***************************************************************************)
(* C20: a request whose batch holds a subscription-validation event is     *)
(* never left waiting for the call-answering API, calls it for no event    *)
(* before it has answered, and its answer is the 200 response that echoes  *)
(* the validation code of the batch's first validation event.              *)
(***************************************************************************)
C20_ValidationEchoedWithoutWaiting ==
    ValidationPositions # {} =>
        /\ hook.pc # "answering"
        /\ hook.calls = <<>>
        /\ hook.pc = "done" =>
              \E i \in ValidationPositions :
                  /\ \A j \in ValidationPositions : i <= j
                  /\ hook.sent = << [status |-> 200,
                                     validationResponse |-> HookEventsOf(hook.body)[i].validationCode] >>

\* the events the loop has reached so far
ProcessedEvents ==
    SubSeq(hook.events, 1, IF hook.i > Len(hook.events) THEN Len(hook.events) ELSE hook.i)

IsIncomingCall(e) == e.eventType = "IncomingCall"

(***************************************************************************)
(* C21: while the call-automation client is configured, the calls of the   *)
(* call-answering API are, in order, one per IncomingCall event the loop   *)
(* has reached, each with that event's call context and with a callback    *)
(* URL that is present and ends in /acs/inbound, whether SELF_BASE_URL is  *)
(* set or not.                                                             *)
(***************************************************************************)
C21_AnswerCalledOnceWithOwnCallback ==
    (hook.pc \in {"answering", "done"} /\ hook.acs) =>
        LET reached == SelectSeq(ProcessedEvents, IsIncomingCall) IN
        /\ Len(hook.calls) = Len(reached)
        /\ \A k \in 1..Len(hook.calls) :
              /\ hook.calls[k].incomingCallContext = reached[k].incomingCallContext
              /\ hook.calls[k].callbackUri # Empty
              /\ hook.calls[k].callbackUri[Len(hook.calls[k].callbackUri)] = "/acs/inbound"

\* the entries of the trace of invocation id, with locals l, are results of
\* attempts that this invocation started, one per candidate and in order
OwnEntriesOnly(id, l) ==
    /\ \A k \in 1..Len(l.attempts) : l.attempts[k].run = id
    /\ Len(l.trace) <= l.idx
    /\ \A j \in 1..Len(l.trace) :
          \E k \in 1..Len(l.attempts) :
              /\ l.attempts[k].cand = j
              /\ l.attempts[k].promise.value = WithoutChain(l.trace[j])
    /\ l.response.kind \in {"success", "failed"} => l.response.trace = l.trace
    /\ l.response.kind = "success" =>
          /\ l.trace[Len(l.trace)].ok
          /\ l.attempts[Len(l.attempts)].firstEvent = EvOpen

(***************************************************************************)
(* C22: with two invocations of /test-realtime interleaved at their await  *)
(* points, each invocation starts with an empty trace, every entry of its  *)
(* trace and its winner are results of attempts it started itself, and a   *)
(* step of one invocation leaves the locals of the other as they were.     *)
(***************************************************************************)
C22_RunsAreIndependent ==
    /\ [](OwnEntriesOnly(Running, Locals) /\ OwnEntriesOnly(other.id, other))
    /\ [][IF other'.id = other.id
          THEN other' = other
          ELSE other' = Parked(Running, Locals) /\ Parked(other.id, Locals') = other]_vars

\* both invocations have reported, one with a winner and one without, and
\* the one that failed started while the other was already collecting
C22_Witness ==
    /\ pc = "done" /\ other.pc = "done"
    /\ response.kind = "success" /\ other.response.kind = "failed"
    /\ Len(trace) = 3 /\ Len(other.trace) = 8

\* statuses that are no 301 and no 302
OtherStatuses == {307, 308, 400, 404}

\* the condition the redirect follow-up is specified to depend on
ShouldFollow(v) == ~v.ok /\ v.status \in {301, 302} /\ v.location # Empty

(***************************************************************************)
(* C23 (index.js): a follow-up handshake exists only right after an        *)
(* original attempt of the same candidate that was Rejected with 301 or    *)
(* 302 and a Location, and goes to that Location with its scheme           *)
(* rewritten; an original attempt Rejected that way is followed (the       *)
(* follow-up socket is created, or its constructor threw); any other       *)
(* failed original attempt, a 301/302 without Location or another status   *)
(* with a Location included, has no follow-up and the run goes on to the   *)
(* next candidate.                                                         *)
(***************************************************************************)
C23_FollowedIffRedirectWithLocation ==
    variant = "index" =>
        /\ \A sc \in OtherStatuses \cup {301, 302}, loc \in Locations :
              IsRedirect(Result(FALSE, Empty, sc, loc, "", "UNEXPECTED"))
                  <=> (sc \in {301, 302} /\ loc # Empty)
        /\ \A k \in 1..Len(attempts) :
              attempts[k].hop > 0 =>
                  /\ k > 1 /\ attempts[k - 1].hop = 0
                  /\ attempts[k - 1].cand = attempts[k].cand
                  /\ ShouldFollow(attempts[k - 1].promise.value)
                  /\ attempts[k].url = httpToWss(attempts[k - 1].promise.value.location)
        /\ \A k \in 1..Len(attempts) :
              (attempts[k].hop = 0 /\ attempts[k].promise.settled /\ Delivered(k)) =>
                  LET v == attempts[k].promise.value
                      followed == k < Len(attempts) /\ attempts[k + 1].hop = 1
                      threw == /\ k = Len(attempts) /\ pc = "done"
                               /\ response.kind = "exception"
                  IN  IF ShouldFollow(v)
                      THEN followed \/ threw
                      ELSE /\ ~followed /\ ~threw
                           /\ (~v.ok /\ attempts[k].cand >= 1
                                     /\ attempts[k].cand < Len(candidates))
                              => /\ k < Len(attempts)
                                 /\ attempts[k + 1].cand = attempts[k].cand + 1

\* a 404 that carried a Location was passed over
C23_Witness ==
    /\ variant = "index"
    /\ \E k \in 1..Len(attempts) :
          /\ attempts[k].hop = 0 /\ Delivered(k)
          /\ attempts[k].promise.value.status = 404
          /\ attempts[k].promise.value.location # Empty
          /\ k < Len(attempts) /\ attempts[k + 1].hop = 0

\* a 301 without Location was passed over
C23_NoLocationWitness ==
    /\ variant = "index"
    /\ \E k \in 1..Len(attempts) :
          /\ attempts[k].hop = 0 /\ Delivered(k)
          /\ attempts[k].promise.value.status = 301
          /\ attempts[k].promise.value.location = Empty
          /\ k < Len(attempts) /\ attempts[k + 1].hop = 0

(***************************************************************************)
(* C24: a request never has more than one response, and once its handler   *)
(* has ended it has exactly one, the validation response or a plain 200;   *)
(* after a call-answering failure the loop goes on with the next event.    *)
(***************************************************************************)
C24_ExactlyOneResponse ==
    /\ Len(hook.sent) <= 1
    /\ hook.pc \in {"done", "rejected"} =>
          /\ Len(hook.sent) = 1
          /\ hook.sent[1].status = 200
          /\ hook.sent[1].validationResponse # Empty => ValidationPositions # {}
    /\ (hook.pc \in {"answering", "done"} /\ hook.log # <<>>) => hook.i > 1

(***************************************************************************)
(* C25: every request of part_003's /ws-once gets exactly one response:    *)
(* res.send is never called a second time, whatever the order of open,     *)
(* unexpected-response, error and timer expiry (in particular an error     *)
(* event after the timer has terminated the socket), and it has been       *)
(* called once the handler has returned without a socket or the timer has  *)
(* expired.                                                                *)
(***************************************************************************)
C25_OneResponsePerRequest ==
    once.file = "part_003" =>
       /\ Len(once.sends) <= 1
       /\ (once.pc = "returned" \/ once.timer = "expired") => Len(once.sends) = 1

(***************************************************************************)
(* C27: every request of the single-URL /test-realtime of part_004 and     *)
(* part_001 eventually has exactly one response: res.send is never called  *)
(* twice, and it is called even when the remote neither completes nor      *)
(* fails the handshake.                                                    *)
(***************************************************************************)
C27_SmokeTestAnswersOnce ==
    /\ [](once.file \in SmokeFiles => Len(once.sends) <= 1)
    /\ (once.file \in SmokeFiles /\ once.pc = "start") ~> (Len(once.sends) = 1)

(***************************************************************************)
(* C26: the timer of an attempt stays armed after the attempt has          *)
(* resolved, and when such a stale timer expires, while a later attempt is *)
(* in flight or after the run has reported, the step changes neither the   *)
(* earlier attempt's recorded outcome and socket, nor any other attempt,   *)
(* nor the trace, the handler's position or the response.                  *)
(***************************************************************************)
StaleTimerStep(k) ==
    /\ k \in 1..Len(attempts)
    /\ Len(attempts') = Len(attempts)
    /\ attempts[k].promise.settled
    /\ "timer" \notin attempts[k].heard
    /\ "timer" \in attempts'[k].heard

C26_StaleTimerChangesNothing ==
    [][\A k \in 1..MaxAttempts :
          StaleTimerStep(k) =>
             /\ attempts'[k].promise = attempts[k].promise
             /\ attempts'[k].closed = attempts[k].closed
             /\ \A j \in 1..Len(attempts) : j # k => attempts'[j] = attempts[j]
             /\ UNCHANGED <<candidates, idx, hop, first, trace, response, pc>>]_vars

\* index.js: the timer of an attempt that a 404 had settled expired while the
\* next attempt, the last socket created, was waiting for its handshake
C26_Witness ==
    /\ variant = "index"
    /\ \E k \in 1..Len(attempts) :
          /\ k < Len(attempts)
          /\ attempts[k].firstEvent.name = "unexpected-response"
          /\ attempts[k].timerSaw = Len(attempts)
          /\ attempts[k].promise.value.error # "timeout"
          /\ ~attempts[Len(attempts)].promise.settled
          /\ attempts[Len(attempts)].heard = {}

(***************************************************************************)
(* C28: /env-check reveals nothing of the API key but whether it is set:   *)
(* two configurations that differ only in the key, the key being set in    *)
(* both or in neither, get the same /env-check output.                     *)
(***************************************************************************)
C28_EnvCheckHidesKey ==
    (gen.mode = "both" /\ (gen.key1 = Empty <=> gen.key2 = Empty)) => gen.out = gen.out2

\* both processes answered, with two different non-empty keys
C28_Witness ==
    /\ gen.mode = "both"
    /\ gen.key1 # Empty /\ gen.key2 # Empty /\ gen.key1 # gen.key2
    /\ env.AZURE_OPENAI_API_KEY = gen.key2
    /\ gen.out.HAS_API_KEY /\ gen.out2.HAS_API_KEY

====
